---- MODULE Spec2Model ----
(***************************************************************************)
(* Model of backend/base/apps.py: the application descriptor BaseConfig    *)
(* (two class attributes and the ready() hook) together with the host that *)
(* loads it, invokes the hook and then serves requests.                    *)
(*                                                                         *)
(* The hook's single statement is `from .signals import create_profile,    *)
(* save_profile`.  Its effect is the effect of Python's import statement   *)
(* on the module cache and of the sibling module's body on the handler     *)
(* registry, so both are part of the state.                                *)
(***************************************************************************)
EXTENDS Integers, Sequences, FiniteSets

VARIABLES
    descriptor,   \* BaseConfig's attributes: [name, default_auto_field]
    signals_src,  \* what the file system holds for base/signals.py
    sys_modules,  \* names of the sibling modules the process has loaded
    signals_ns,   \* namespace of the loaded signals module (function objects)
    receivers,    \* handler registry: sequence of connected function objects
    execs,        \* how many times the body of signals.py has been executed
    phase,        \* position of the host in its startup sequence
    host_seen,    \* attributes the host read at registry-build time
    calls,        \* number of ready() invocations so far
    outcome,      \* how the last ready() ended: "none", "returned", "raised"
    exc,          \* exception the last ready() raised ("none" if it returned)
    retval,       \* value the last ready() returned ("unset" if none)
    other_done,   \* another application's hook has run
    requests      \* requests handled so far

vars == <<descriptor, signals_src, sys_modules, signals_ns, receivers, execs,
          phase, host_seen, calls, outcome, exc, retval, other_done, requests>>

----------------------------------------------------------------------------
(* Bounds *)

MaxCalls == 3

MaxRequests == 2

----------------------------------------------------------------------------
(* The descriptor's class attributes *)

BaseConfig_default_auto_field_small == "django.db.models.AutoField"

BaseConfig_default_auto_field == "django.db.models.BigAutoField"

BaseConfig_name_cased == "Base"

BaseConfig_name == "base"

\* `.signals` resolved against the package the descriptor names
SignalsModule == BaseConfig_name \o ".signals"

\* The names the hook imports
ImportedNames == {"create_profile", "save_profile"}

----------------------------------------------------------------------------
(* The sibling module base/signals.py, as the file system may hold it *)

Def(h) == [op |-> "def", fn |-> h]

Raise == [op |-> "raise", fn |-> ""]

WellFormed == [present |-> TRUE, body |-> <<Def("create_profile"), Def("save_profile")>>]

Missing == [present |-> FALSE, body |-> <<>>]

LackingShapes ==
    { [present |-> TRUE, body |-> b] :
        b \in { <<>>, <<Def("create_profile")>>, <<Def("save_profile")>> } }

FailingShapes ==
    { [present |-> TRUE, body |-> b] :
        b \in { <<Raise, Def("create_profile"), Def("save_profile")>>,
                <<Def("create_profile"), Raise, Def("save_profile")>>,
                <<Def("create_profile"), Def("save_profile"), Raise>> } }

SignalsShapes == {WellFormed, Missing} \cup LackingShapes \cup FailingShapes

----------------------------------------------------------------------------
(* Handler registry *)

Range(s) == { s[i] : i \in 1..Len(s) }

\* Connecting a function object already connected changes nothing
Connect(recv, f) == IF f \in Range(recv) THEN recv ELSE Append(recv, f)

\* Number of registrations of the handler named h
Count(recv, h) == Cardinality({ i \in 1..Len(recv) : recv[i].fn = h })

OtherHandler == [fn |-> "other_handler", gen |-> 0]

----------------------------------------------------------------------------
(* Python's import of the sibling module *)

\* Executing the module body statement by statement: each decorated def
\* creates a function object, binds its name and connects it; a failing
\* statement stops the execution and keeps what was done before it.
RECURSIVE ExecBody(_, _, _, _)
ExecBody(body, gen, ns, recv) ==
    IF body = <<>> THEN [ok |-> TRUE, ns |-> ns, receivers |-> recv]
    ELSE LET s == Head(body) IN
         IF s.op = "raise" THEN [ok |-> FALSE, ns |-> ns, receivers |-> recv]
         ELSE LET f == [fn |-> s.fn, gen |-> gen] IN
              ExecBody(Tail(body), gen,
                       { g \in ns : g.fn # s.fn } \cup {f}, Connect(recv, f))

\* The import state the statement reads and writes
ImportState == [sys_modules |-> sys_modules, ns |-> signals_ns,
                receivers |-> receivers, execs |-> execs]

\* `from <module> import <names>`: look each name up in the loaded module
GetNames(st, names) ==
    [st |-> st,
     exc |-> IF \A n \in names : \E f \in st.ns : f.fn = n
             THEN "none" ELSE "ImportError"]

\* Load the module: always executes the body (no cache lookup)
LoadModule(st, src, names, keep) ==
    IF ~src.present THEN [st |-> st, exc |-> "ModuleNotFoundError"]
    ELSE LET r == ExecBody(src.body, st.execs + 1, {}, st.receivers) IN
         IF ~r.ok
         THEN \* the half-built module is dropped from the cache; whether the
              \* registrations it made survive depends on when its function
              \* objects are collected
              [st |-> [sys_modules |-> st.sys_modules \ {SignalsModule},
                       ns |-> {},
                       receivers |-> IF keep THEN r.receivers ELSE st.receivers,
                       execs |-> st.execs + 1],
               exc |-> "ExecError"]
         ELSE GetNames([sys_modules |-> st.sys_modules \cup {SignalsModule},
                        ns |-> r.ns,
                        receivers |-> r.receivers,
                        execs |-> st.execs + 1], names)

\* The import statement: a module already in the cache is not executed again
ImportFrom(st, src, names, keep) ==
    IF SignalsModule \in st.sys_modules
    THEN GetNames(st, names)
    ELSE LoadModule(st, src, names, keep)

----------------------------------------------------------------------------
(* BaseConfig.ready *)

ready_noimport(desc, st, src, keep) ==
    [descriptor |-> desc, st |-> st, exc |-> "none", retval |-> "None"]

ready_three_names(desc, st, src, keep) ==
    LET r == ImportFrom(st, src, ImportedNames \cup {"delete_profile"}, keep) IN
    [descriptor |-> desc, st |-> r.st, exc |-> r.exc,
     retval |-> IF r.exc = "none" THEN "None" ELSE "unset"]

ready_swallow(desc, st, src, keep) ==
    LET r == ImportFrom(st, src, ImportedNames, keep) IN
    [descriptor |-> desc, st |-> r.st, exc |-> "none", retval |-> "None"]

ready_returns_handlers(desc, st, src, keep) ==
    LET r == ImportFrom(st, src, ImportedNames, keep) IN
    [descriptor |-> desc, st |-> r.st, exc |-> r.exc,
     retval |-> IF r.exc = "none" THEN "handlers" ELSE "unset"]

ready_relabel(desc, st, src, keep) ==
    LET r == ImportFrom(st, src, ImportedNames, keep) IN
    [descriptor |-> [desc EXCEPT !.name = SignalsModule], st |-> r.st,
     exc |-> r.exc, retval |-> IF r.exc = "none" THEN "None" ELSE "unset"]

ready_reload(desc, st, src, keep) ==
    LET r == LoadModule(st, src, ImportedNames, keep) IN
    [descriptor |-> desc, st |-> r.st, exc |-> r.exc,
     retval |-> IF r.exc = "none" THEN "None" ELSE "unset"]

\* def ready(self): from .signals import create_profile, save_profile
\* No handler around the import, no assignment to self, no return statement.
ready(desc, st, src, keep) ==
    LET r == ImportFrom(st, src, ImportedNames, keep) IN
    [descriptor |-> desc, st |-> r.st, exc |-> r.exc,
     retval |-> IF r.exc = "none" THEN "None" ELSE "unset"]

----------------------------------------------------------------------------
(* Loading apps.py itself *)

AppsModuleLoadEager(st, src) == ImportFrom(st, src, ImportedNames, TRUE).st

\* The module's top level imports django.apps and defines the class; it
\* imports no sibling module.
AppsModuleLoad(st, src) == st

----------------------------------------------------------------------------
(* Initial state and actions *)

Init ==
    /\ descriptor = [name |-> BaseConfig_name,
                     default_auto_field |-> BaseConfig_default_auto_field]
    /\ signals_src \in SignalsShapes
    /\ sys_modules = {}
    /\ signals_ns = {}
    /\ receivers = <<>>
    /\ execs = 0
    /\ phase = "start"
    /\ host_seen = [name |-> "unread", default_auto_field |-> "unread"]
    /\ calls = 0
    /\ outcome = "none"
    /\ exc = "none"
    /\ retval = "unset"
    /\ other_done = FALSE
    /\ requests = 0

\* The host discovers the descriptor: apps.py is imported
Discover ==
    /\ phase = "start"
    /\ LET st == AppsModuleLoad(ImportState, signals_src) IN
        /\ sys_modules' = st.sys_modules
        /\ signals_ns' = st.ns
        /\ receivers' = st.receivers
        /\ execs' = st.execs
    /\ phase' = "discovered"
    /\ UNCHANGED <<descriptor, signals_src, host_seen, calls, outcome, exc,
                   retval, other_done, requests>>

\* The host reads the declared attributes while it builds its registry
ReadAttributes ==
    /\ phase = "discovered"
    /\ host_seen' = descriptor
    /\ phase' = "registered"
    /\ UNCHANGED <<descriptor, signals_src, sys_modules, signals_ns, receivers,
                   execs, calls, outcome, exc, retval, other_done, requests>>

\* Effect of one ready() invocation on the program state
Invoke(r) ==
    /\ descriptor' = r.descriptor
    /\ sys_modules' = r.st.sys_modules
    /\ signals_ns' = r.st.ns
    /\ receivers' = r.st.receivers
    /\ execs' = r.st.execs
    /\ exc' = r.exc
    /\ outcome' = IF r.exc = "none" THEN "returned" ELSE "raised"
    /\ retval' = r.retval
    /\ calls' = calls + 1

\* The host invokes the hook once the registry is complete; an exception
\* out of the hook ends the startup
Ready ==
    /\ phase = "registered"
    /\ calls < MaxCalls
    /\ \E keep \in BOOLEAN :
         LET r == ready(descriptor, ImportState, signals_src, keep) IN
           /\ Invoke(r)
           /\ phase' = IF r.exc = "none" THEN "serving" ELSE "failed"
    /\ UNCHANGED <<signals_src, host_seen, other_done, requests>>

\* A further invocation in the same process (a reload, a retry)
ReadyAgain ==
    /\ phase \in {"serving", "failed"}
    /\ calls < MaxCalls
    /\ \E keep \in BOOLEAN :
         Invoke(ready(descriptor, ImportState, signals_src, keep))
    /\ UNCHANGED <<signals_src, phase, host_seen, other_done, requests>>

\* Another application's hook connects its own handler; its order relative
\* to this application's hook is the host's choice
OtherAppReady ==
    /\ phase \in {"registered", "serving"}
    /\ ~other_done
    /\ receivers' = Connect(receivers, OtherHandler)
    /\ other_done' = TRUE
    /\ UNCHANGED <<descriptor, signals_src, sys_modules, signals_ns, execs,
                   phase, host_seen, calls, outcome, exc, retval, requests>>

\* Requests are handled only after the startup sequence has completed
HandleRequest ==
    /\ phase = "serving"
    /\ requests < MaxRequests
    /\ requests' = requests + 1
    /\ UNCHANGED <<descriptor, signals_src, sys_modules, signals_ns, receivers,
                   execs, phase, host_seen, calls, outcome, exc, retval,
                   other_done>>

Next ==
    \/ Discover
    \/ ReadAttributes
    \/ Ready
    \/ ReadyAgain
    \/ OtherAppReady
    \/ HandleRequest

Spec == Init /\ [][Next]_vars

----------------------------------------------------------------------------
(* Properties *)

HasRaise(src) == \E i \in 1..Len(src.body) : src.body[i].op = "raise"

Defines(src, h) == \E i \in 1..Len(src.body) : src.body[i] = Def(h)

\* The sibling module can be imported and holds both handlers
Importable(src) ==
    /\ src.present
    /\ ~HasRaise(src)
    /\ Defines(src, "create_profile")
    /\ Defines(src, "save_profile")

\* C1: the descriptor's name is "base" in every reachable state: before the
\* hook is invoked, after it returns and after it fails.
C1_NameIsRegistryKey == descriptor.name = "base"

C1_Witness ==
    /\ outcome = "raised"
    /\ phase = "failed"
    /\ descriptor.name = "base"

\* C2: a single successful invocation of the hook registers create_profile
\* exactly once and save_profile exactly once, and adds no other handler to
\* the registry.
C2_OneRegistrationEach ==
    [][ (calls = 0 /\ calls' = 1 /\ outcome' = "returned") =>
          /\ Count(receivers', "create_profile") = 1
          /\ Count(receivers', "save_profile") = 1
          /\ Len(receivers') = Len(receivers) + 2
          /\ SubSeq(receivers', 1, Len(receivers)) = receivers
          /\ \A f \in Range(receivers') \ Range(receivers) :
                f.fn \in {"create_profile", "save_profile"} ]_vars

C2_Witness ==
    /\ calls = 1
    /\ outcome = "returned"
    /\ other_done
    /\ Len(receivers) = 3
    /\ Count(receivers, "create_profile") = 1
    /\ Count(receivers, "save_profile") = 1

\* C3: when the sibling module is importable and defines both handlers,
\* every invocation of the hook returns normally and none raises.
C3_NoRaiseWhenWellFormed ==
    (Importable(signals_src) /\ calls > 0) =>
        (outcome = "returned" /\ exc = "none" /\ phase = "serving")

C3_Witness ==
    /\ Importable(signals_src)
    /\ calls >= 2
    /\ outcome = "returned"

\* C4: when the import inside the hook fails (module missing, module body
\* fails, a name is lacking) the hook raises: the exception reaches the host,
\* whose startup fails, and the hook never reports a normal return.
C4_ImportFailurePropagates ==
    (~Importable(signals_src) /\ calls > 0) =>
        /\ outcome = "raised"
        /\ exc \in {"ModuleNotFoundError", "ExecError", "ImportError"}
        /\ retval = "unset"
        /\ phase = "failed"
        /\ requests = 0

C4_Witness ==
    /\ exc = "ImportError"
    /\ outcome = "raised"
    /\ phase = "failed"
    /\ SignalsModule \in sys_modules

\* C5: default_auto_field is "django.db.models.BigAutoField" from the start,
\* and that is the value the host reads at registry-build time, before the
\* hook has ever been invoked.
C5_DefaultAutoField ==
    /\ descriptor.default_auto_field = "django.db.models.BigAutoField"
    /\ phase \notin {"start", "discovered"} =>
          host_seen.default_auto_field = "django.db.models.BigAutoField"

C5_Witness ==
    /\ phase = "registered"
    /\ calls = 0
    /\ host_seen.default_auto_field = "django.db.models.BigAutoField"

\* C6: every invocation of the hook that returns normally returns None,
\* whatever the handler registry held before the call.
C6_ReturnsNone == outcome = "returned" => retval = "None"

C6_Witness ==
    /\ outcome = "returned"
    /\ retval = "None"
    /\ calls >= 2
    /\ OtherHandler \in Range(receivers)

\* C7: an invocation of the hook, returning or raising, leaves the
\* descriptor's attributes unchanged; what it changes is confined to the
\* loaded modules and to registrations of the handlers of the signals module.
C7_HookFrame ==
    [][ calls' = calls + 1 =>
          /\ descriptor' = descriptor
          /\ signals_src' = signals_src
          /\ host_seen' = host_seen
          /\ other_done' = other_done
          /\ requests' = requests
          /\ (sys_modules' \ sys_modules) \subseteq {"base.signals"}
          /\ receivers' # receivers => execs' = execs + 1
          /\ \A f \in Range(receivers') \ Range(receivers) :
                f.fn \in {"create_profile", "save_profile"} ]_vars

C7_Witness ==
    /\ outcome = "raised"
    /\ calls >= 1
    /\ Count(receivers, "create_profile") >= 1
    /\ descriptor.name = "base"

\* C8: as long as the hook has not been invoked, the signals module is not
\* loaded and neither handler is registered, even after the descriptor was
\* discovered and its attributes read; and once a request has been handled
\* both handlers are registered.
C8_RegistrationTiedToHook ==
    /\ calls = 0 =>
          /\ "base.signals" \notin sys_modules
          /\ execs = 0
          /\ Count(receivers, "create_profile") = 0
          /\ Count(receivers, "save_profile") = 0
    /\ requests > 0 =>
          /\ calls >= 1
          /\ Count(receivers, "create_profile") >= 1
          /\ Count(receivers, "save_profile") >= 1

C8_Witness ==
    /\ requests > 0
    /\ calls = 1
    /\ host_seen.name = "base"
    /\ Count(receivers, "create_profile") = 1
    /\ Count(receivers, "save_profile") = 1

\* C9: a successful invocation of the hook that follows a successful one
\* leaves the handler registry as it was: the loaded signals module is not
\* executed again, so no handler is registered twice.
C9_Idempotent ==
    [][ (outcome = "returned" /\ calls' = calls + 1 /\ outcome' = "returned") =>
          /\ receivers' = receivers
          /\ execs' = execs
          /\ Count(receivers', "create_profile") = 1
          /\ Count(receivers', "save_profile") = 1 ]_vars

C9_Witness ==
    /\ calls >= 2
    /\ outcome = "returned"
    /\ execs = 1
    /\ Count(receivers, "create_profile") = 1
    /\ Count(receivers, "save_profile") = 1

====
